---- MODULE Spec2Model ----
(***************************************************************************)
(* A model of osrm::contractor::ContractedEdgeContainer                    *)
(* (include/contractor/contracted_edge_container.hpp) and of               *)
(* osrm::contractor::Contractor::Run (src/contractor/contractor.cpp).      *)
(*                                                                         *)
(* Iterators are 1-based positions into a sequence; the end iterator of a  *)
(* sequence s is Len(s) + 1.  Dereferencing an end iterator is undefined   *)
(* behaviour: the model lets the read either fault or yield some value     *)
(* that stays the same for the rest of the call.                           *)
(***************************************************************************)
EXTENDS Integers, Sequences, FiniteSets, TLC

VARIABLES
    index,       \* ContractedEdgeContainer::index
    flags,       \* ContractedEdgeContainer::flags
    edges,       \* ContractedEdgeContainer::edges
    m,           \* the frame of the Merge call in progress (locals, position)
    ret,         \* the value returned by the last MakeEdgeFilters call
    seqs,        \* history: the new_edges argument of every Merge call so far
    assertions,  \* build option: is BOOST_ASSERT compiled in?
    run          \* the frame of Contractor::Run: config, locals, files, position

cvars == <<index, flags, edges, m, ret, seqs, assertions>>
vars == <<index, flags, edges, m, ret, seqs, assertions, run>>

----------------------------------------------------------------------------
\* Bounds of the model.

\* longest new_edges sequence handed to Merge
MaxLen == 2
\* number of Merge calls made on one container
MaxPasses == 2
\* longest exclusion filter list of a run with arbitrary filters
MaxRunFilters == 2
\* longest exclusion filter list of a run that contracts nothing
MaxFilters == 8
\* number of MakeEdgeFilters calls made between two Merge calls
MaxCalls == 2

----------------------------------------------------------------------------
\* Program constants.

\* sizeof(MergedFlags) * CHAR_BIT, MergedFlags = std::uint8_t
FlagBits == 8

RECURSIVE Pow2(_)
Pow2(n) == IF n = 0 THEN 1 ELSE 2 * Pow2(n - 1)

\* bit i of the unsigned value f
BitAt(f, i) == (f \div Pow2(i)) % 2

RECURSIVE BitOrN(_, _, _)
BitOrN(a, b, n) ==
    IF n = 0 THEN 0
    ELSE (IF a % 2 = 1 \/ b % 2 = 1 THEN 1 ELSE 0)
         + 2 * BitOrN(a \div 2, b \div 2, n - 1)

RECURSIVE BitAndN(_, _, _)
BitAndN(a, b, n) ==
    IF n = 0 THEN 0
    ELSE (IF a % 2 = 1 /\ b % 2 = 1 THEN 1 ELSE 0)
         + 2 * BitAndN(a \div 2, b \div 2, n - 1)

\* a | b, stored back into a MergedFlags
BitOr(a, b) == BitOrN(a, b, FlagBits) % Pow2(FlagBits)

\* a & b on MergedFlags operands
BitAnd(a, b) == BitAndN(a, b, FlagBits)

\* MergedFlags(1 << i): the int 1 shifted, then narrowed to 8 bits
ShiftFlag(i) == Pow2(i) % Pow2(FlagBits)

----------------------------------------------------------------------------
\* QueryEdge and its ordering.

QueryEdge(s, t, sc, tid, w, d, f, b) ==
    [source |-> s, target |-> t, shortcut |-> sc, turn_id |-> tid,
     weight |-> w, duration |-> d, forward |-> f, backward |-> b]

\* bool compared by operator<: false < true
BoolRank(b) == IF b THEN 1 ELSE 0

\* the std::tie(...) tuple of an edge
Tie(e) ==
    <<e.source, e.target, BoolRank(e.shortcut), e.turn_id, e.weight,
      e.duration, BoolRank(e.forward), BoolRank(e.backward)>>

\* std::tuple operator<: lexicographic
TupleLess(a, b) ==
    \E i \in 1..Len(a) :
        /\ a[i] < b[i]
        /\ \A j \in 1..(i - 1) : a[j] = b[j]

mergeCompare(lhs, rhs) == TupleLess(Tie(lhs), Tie(rhs))

\* only true if both are equal
mergable(lhs, rhs) == ~mergeCompare(lhs, rhs) /\ ~mergeCompare(rhs, lhs)

----------------------------------------------------------------------------
\* The edges the model draws its inputs from.

EdgeA == QueryEdge(0, 1, FALSE, 0, 5, 5, TRUE, FALSE)
EdgeB == QueryEdge(0, 1, FALSE, 0, 5, 5, TRUE, TRUE)
EdgeC == QueryEdge(1, 0, TRUE, 2, 7, 7, TRUE, FALSE)
\* an edge between nodes 1 and 2, loaded by Run only
EdgeD == QueryEdge(1, 2, FALSE, 1, 3, 3, TRUE, FALSE)
\* larger than every edge of EdgeDomain
EdgeTop == QueryEdge(9, 9, TRUE, 9, 9, 9, TRUE, TRUE)

EdgeDomain == {EdgeA, EdgeB, EdgeC}

Range(s) == {s[i] : i \in 1..Len(s)}

\* sorted by the canonical tuple (equal neighbours allowed)
IsSorted(s) == \A i \in 1..(Len(s) - 1) : ~mergeCompare(s[i + 1], s[i])

\* strictly increasing by the canonical tuple
IsStrictlySorted(s) == \A i \in 1..(Len(s) - 1) : mergeCompare(s[i], s[i + 1])

SeqsUpTo(S, n) == UNION {[1..k -> S] : k \in 0..n}

SortedSeqs == {s \in SeqsUpTo(EdgeDomain, MaxLen) : IsSorted(s)}

----------------------------------------------------------------------------
\* What a read through an end iterator can find.  kind "unread": not read
\* yet in this call; "unmapped": the read faults; "value": it yields val.

Unread == [kind |-> "unread", val |-> EdgeA]
Unmapped == [kind |-> "unmapped", val |-> EdgeA]
EndMem == {Unmapped} \cup {[kind |-> "value", val |-> e] : e \in EdgeDomain \cup {EdgeTop}}

\* *it for an iterator it into s, with mem the content found at s.end()
Deref(s, it, mem) == IF it <= Len(s) THEN s[it] ELSE mem.val

----------------------------------------------------------------------------
\* Merge: the frame of a call.

\* outer_pos is history: the cursors at the last entry into the body of
\* the outer loop
IdleFrame ==
    [pc |-> "idle", new_edges |-> <<>>, flag |-> 0,
     merged_flags |-> <<>>, merged_edges |-> <<>>,
     flags_iter |-> 1, edges_iter |-> 1, new_edges_iter |-> 1,
     edges_end_mem |-> Unread, new_edges_end_mem |-> Unread,
     read_edges_end |-> FALSE, read_new_edges_end |-> FALSE,
     outer_pos |-> <<1, 1>>]

\* lines 43-60: the assertion, the flag of this pass, the locals
MergeEnter(idx, new_edges, asserts) ==
    IF asserts /\ ~(idx < FlagBits)
    THEN [IdleFrame EXCEPT !.pc = "abort", !.new_edges = new_edges]
    ELSE [IdleFrame EXCEPT !.pc = "outer", !.new_edges = new_edges,
                           !.flag = ShiftFlag(idx)]

edges_end(es) == Len(es) + 1
new_edges_end(st) == Len(st.new_edges) + 1

\* the frame after a condition that dereferences both iterators was
\* evaluated: end reads are recorded
NoteReads(st, es) ==
    [st EXCEPT !.read_edges_end = @ \/ st.edges_iter = edges_end(es),
               !.read_new_edges_end = @ \/ st.new_edges_iter = new_edges_end(st)]

\* a dereference of both iterators faults
ReadFaults(st, es) ==
    \/ st.edges_iter = edges_end(es) /\ st.edges_end_mem.kind = "unmapped"
    \/ st.new_edges_iter = new_edges_end(st) /\ st.new_edges_end_mem.kind = "unmapped"

CurEdge(st, es) == Deref(es, st.edges_iter, st.edges_end_mem)
CurNew(st) == Deref(st.new_edges, st.new_edges_iter, st.new_edges_end_mem)

\* line 62
OuterTest(st, es) ==
    IF st.edges_iter # edges_end(es) /\ st.new_edges_iter # new_edges_end(st)
    THEN [st EXCEPT !.pc = "loop1",
                    !.outer_pos = <<st.edges_iter, st.new_edges_iter>>]
    ELSE [st EXCEPT !.pc = "tail1"]

\* lines 64-68
Loop1(st, es, fs) ==
    IF ReadFaults(st, es) THEN [NoteReads(st, es) EXCEPT !.pc = "segv"]
    ELSE IF mergeCompare(CurEdge(st, es), CurNew(st)) /\ st.edges_iter # edges_end(es)
    THEN [NoteReads(st, es) EXCEPT
              !.merged_edges = Append(@, es[st.edges_iter]),
              !.merged_flags = Append(@, fs[st.flags_iter]),
              !.flags_iter = @ + 1,
              !.edges_iter = @ + 1]
    ELSE [NoteReads(st, es) EXCEPT !.pc = "loop2"]

\* Loop2 without the new_edges_iter++ of line 72
Loop2_NewNotAdvanced(st, es, fs) ==
    IF ReadFaults(st, es) THEN [NoteReads(st, es) EXCEPT !.pc = "segv"]
    ELSE IF mergeCompare(CurNew(st), CurEdge(st, es))
            /\ st.new_edges_iter # new_edges_end(st)
    THEN [NoteReads(st, es) EXCEPT
              !.merged_edges = Append(@, st.new_edges[st.new_edges_iter]),
              !.merged_flags = Append(@, st.flag)]
    ELSE [NoteReads(st, es) EXCEPT !.pc = "loop3"]

\* Loop2 without the merged_flags.push_back(flag) of line 73
Loop2_FlagNotPushed(st, es, fs) ==
    IF ReadFaults(st, es) THEN [NoteReads(st, es) EXCEPT !.pc = "segv"]
    ELSE IF mergeCompare(CurNew(st), CurEdge(st, es))
            /\ st.new_edges_iter # new_edges_end(st)
    THEN [NoteReads(st, es) EXCEPT
              !.merged_edges = Append(@, st.new_edges[st.new_edges_iter]),
              !.new_edges_iter = @ + 1]
    ELSE [NoteReads(st, es) EXCEPT !.pc = "loop3"]

\* lines 70-74
Loop2(st, es, fs) ==
    IF ReadFaults(st, es) THEN [NoteReads(st, es) EXCEPT !.pc = "segv"]
    ELSE IF mergeCompare(CurNew(st), CurEdge(st, es))
            /\ st.new_edges_iter # new_edges_end(st)
    THEN [NoteReads(st, es) EXCEPT
              !.merged_edges = Append(@, st.new_edges[st.new_edges_iter]),
              !.merged_flags = Append(@, st.flag),
              !.new_edges_iter = @ + 1]
    ELSE [NoteReads(st, es) EXCEPT !.pc = "loop3"]

\* Loop3 without the new_edges_iter++ of line 83
Loop3_NewNotAdvanced(st, es, fs) ==
    IF ReadFaults(st, es) THEN [NoteReads(st, es) EXCEPT !.pc = "segv"]
    ELSE IF /\ mergable(CurEdge(st, es), CurNew(st))
            /\ st.edges_iter # edges_end(es)
            /\ st.new_edges_iter # new_edges_end(st)
    THEN [NoteReads(st, es) EXCEPT
              !.merged_edges = Append(@, es[st.edges_iter]),
              !.merged_flags = Append(@, BitOr(fs[st.flags_iter], st.flag)),
              !.flags_iter = @ + 1,
              !.edges_iter = @ + 1]
    ELSE [NoteReads(st, es) EXCEPT !.pc = "outer"]

\* lines 76-84
Loop3(st, es, fs) ==
    IF ReadFaults(st, es) THEN [NoteReads(st, es) EXCEPT !.pc = "segv"]
    ELSE IF /\ mergable(CurEdge(st, es), CurNew(st))
            /\ st.edges_iter # edges_end(es)
            /\ st.new_edges_iter # new_edges_end(st)
    THEN [NoteReads(st, es) EXCEPT
              !.merged_edges = Append(@, es[st.edges_iter]),
              !.merged_flags = Append(@, BitOr(fs[st.flags_iter], st.flag)),
              !.flags_iter = @ + 1,
              !.edges_iter = @ + 1,
              !.new_edges_iter = @ + 1]
    ELSE [NoteReads(st, es) EXCEPT !.pc = "outer"]

\* lines 87-92
Tail1(st, es, fs, asserts) ==
    IF ReadFaults(st, es) THEN [NoteReads(st, es) EXCEPT !.pc = "segv"]
    ELSE IF mergeCompare(CurEdge(st, es), CurNew(st)) /\ st.edges_iter # edges_end(es)
    THEN IF asserts /\ ~(st.new_edges_iter = new_edges_end(st))
         THEN [NoteReads(st, es) EXCEPT !.pc = "abort"]
         ELSE [NoteReads(st, es) EXCEPT
                   !.merged_edges = Append(@, es[st.edges_iter]),
                   !.merged_flags = Append(@, fs[st.flags_iter]),
                   !.flags_iter = @ + 1,
                   !.edges_iter = @ + 1]
    ELSE [NoteReads(st, es) EXCEPT !.pc = "tail2"]

\* lines 94-99
Tail2(st, es, fs, asserts) ==
    IF ReadFaults(st, es) THEN [NoteReads(st, es) EXCEPT !.pc = "segv"]
    ELSE IF mergeCompare(CurNew(st), CurEdge(st, es))
            /\ st.new_edges_iter # new_edges_end(st)
    THEN IF asserts /\ ~(st.edges_iter = edges_end(es))
         THEN [NoteReads(st, es) EXCEPT !.pc = "abort"]
         ELSE [NoteReads(st, es) EXCEPT
                   !.merged_edges = Append(@, st.new_edges[st.new_edges_iter]),
                   !.merged_flags = Append(@, st.flag),
                   !.new_edges_iter = @ + 1]
    ELSE [NoteReads(st, es) EXCEPT !.pc = "move"]

LoopPcs == {"outer", "loop1", "loop2", "loop3", "tail1", "tail2"}

\* one evaluation of a loop condition of Merge, and the loop body if it holds
MergeStep(st, es, fs, asserts) ==
    CASE st.pc = "outer" -> OuterTest(st, es)
      [] st.pc = "loop1" -> Loop1(st, es, fs)
      [] st.pc = "loop2" -> Loop2(st, es, fs)
      [] st.pc = "loop3" -> Loop3(st, es, fs)
      [] st.pc = "tail1" -> Tail1(st, es, fs, asserts)
      [] st.pc = "tail2" -> Tail2(st, es, fs, asserts)
      [] OTHER -> st

\* the next step reads through edges.end() for the first time in this call
FirstReadEdgesEnd(st, es) ==
    /\ st.pc \in LoopPcs \ {"outer"}
    /\ st.edges_iter = edges_end(es)
    /\ st.edges_end_mem.kind = "unread"

\* the next step reads through new_edges.end() for the first time in this call
FirstReadNewEdgesEnd(st) ==
    /\ st.pc \in LoopPcs \ {"outer"}
    /\ st.new_edges_iter = new_edges_end(st)
    /\ st.new_edges_end_mem.kind = "unread"

\* what the next step can find behind the two end positions
EdgesEndChoices(st, es) == IF FirstReadEdgesEnd(st, es) THEN EndMem ELSE {st.edges_end_mem}
NewEdgesEndChoices(st) == IF FirstReadNewEdgesEnd(st) THEN EndMem ELSE {st.new_edges_end_mem}

\* the frame with the memory behind the end positions fixed to ge and gn
Resolve(st, ge, gn) == [st EXCEPT !.edges_end_mem = ge, !.new_edges_end_mem = gn]

----------------------------------------------------------------------------
\* MakeEdgeFilters.

\* line 113: the subscript of the element of filters that flag_index's
\* values are appended to (0-based)
FilterSlot(idx, flag_index) == idx

\* line 110-113: the values pushed for flag_index, one per flag
MaskedFlags(fs, flag_index) ==
    [k \in 1..Len(fs) |-> BitAnd(fs[k], ShiftFlag(flag_index)) # 0]

\* what the loop of lines 108-115 appends to filters[p] (0-based p), from
\* flag_index on
RECURSIVE PushedTo(_, _, _, _)
PushedTo(idx, fs, p, flag_index) ==
    IF flag_index >= idx THEN <<>>
    ELSE (IF FilterSlot(idx, flag_index) = p THEN MaskedFlags(fs, flag_index) ELSE <<>>)
         \o PushedTo(idx, fs, p, flag_index + 1)

\* lines 105-118.  filters has idx elements, subscripts 0..idx-1; a push
\* through any other subscript is out of bounds (out_of_bounds), and the
\* returned vector holds what went to the elements it has
MakeEdgeFilters(idx, fs) ==
    [called |-> TRUE,
     out_of_bounds |-> \E flag_index \in 0..(idx - 1) :
                          /\ Len(fs) > 0
                          /\ FilterSlot(idx, flag_index) \notin 0..(idx - 1),
     filters |-> [p \in 1..idx |-> PushedTo(idx, fs, p - 1, 0)]]

----------------------------------------------------------------------------
\* Merge as one call: the frame at which the loops of lines 62-99 stop.

RECURSIVE MergeRun(_, _, _, _)
MergeRun(st, es, fs, asserts) ==
    IF st.pc \in LoopPcs
    THEN MergeRun(MergeStep(st, es, fs, asserts), es, fs, asserts)
    ELSE st

\* the frames a call Merge(new_edges) can stop at ("move": about to store
\* merged_flags and merged_edges; "segv", "abort": the process died), one
\* for each content of the memory behind the two end positions
MergeOutcomes(idx, es, fs, new_edges, asserts) ==
    {MergeRun(Resolve(MergeEnter(idx, new_edges, asserts), ge, gn), es, fs, asserts) :
        ge \in EndMem, gn \in EndMem}

----------------------------------------------------------------------------
\* Contractor::Run: configuration and inputs.

\* the NodeIDs, 0..max_edge_id
Nodes == {0, 1, 2}

\* config.core_factor is a double, the core fraction handed to contractGraph
\* a float.  The model's doubles are the multiples of 1/1000, its floats the
\* multiples of 1/500: the conversion rounds.
CoreFactors == {-1, 0, 501, 1000, 1001}
One == 1000
ToFloat(x) == 2 * ((x + 1) \div 2)

\* line 104: constexpr float BASE_CORE = 0.9
BASE_CORE == 900

\* line 44 without its lower bound
CoreFactorOutOfRange_NoLowerBound(core_factor) == core_factor > One

\* line 44
CoreFactorOutOfRange(core_factor) == core_factor > One \/ core_factor < 0

\* line 107 with BASE_CORE in place of the std::min
SharedCoreFraction_BaseOnly(core_factor) == ToFloat(BASE_CORE)

\* line 107: std::min<float>(BASE_CORE, config.core_factor)
SharedCoreFraction(core_factor) ==
    IF ToFloat(core_factor) < ToFloat(BASE_CORE)
    THEN ToFloat(core_factor)
    ELSE ToFloat(BASE_CORE)

\* a filter is a std::vector<bool> over the nodes
AllowAll == [v \in Nodes |-> TRUE]
FilterChoices == {AllowAll, [v \in Nodes |-> v # 0], [v \in Nodes |-> v # 2]}

\* the edge lists the updater can load
EdgeLists == {{EdgeA, EdgeD}}

\* lines 92-99 with the assignment of line 97 forgetting the value
\* accumulated so far
RECURSIVE AlwaysAllowedFrom_LastFilterOnly(_, _, _)
AlwaysAllowedFrom_LastFilterOnly(always_allowed, filters, i) ==
    IF i > Len(filters) THEN always_allowed
    ELSE AlwaysAllowedFrom_LastFilterOnly(
             [node \in Nodes |-> filters[i][node]], filters, i + 1)

\* lines 92-99: always_allowed after the filters from position i on
RECURSIVE AlwaysAllowedFrom(_, _, _)
AlwaysAllowedFrom(always_allowed, filters, i) ==
    IF i > Len(filters) THEN always_allowed
    ELSE AlwaysAllowedFrom(
             [node \in Nodes |-> always_allowed[node] /\ filters[i][node]],
             filters, i + 1)

AlwaysAllowed(filters) == AlwaysAllowedFrom([node \in Nodes |-> TRUE], filters, 1)

\* ContractorGraph::Filter: the edges between nodes the predicate keeps
Filter(graph, keep) == {e \in graph : keep[e.source] /\ keep[e.target]}

\* the sequence of the edges of S in canonical order
RECURSIVE SortedSeqOf(_)
SortedSeqOf(S) ==
    IF S = {} THEN <<>>
    ELSE LET least == CHOOSE e \in S : \A o \in S \ {e} : mergeCompare(e, o)
         IN <<least>> \o SortedSeqOf(S \ {least})

\* toEdges<QueryEdge>(graph): the graph's edges, sorted
toEdges(graph) == SortedSeqOf(graph)

\* the shortcuts a contraction can insert
Shortcuts == {e \in EdgeDomain : e.shortcut}

\* contractGraph(graph, allowed, node_levels, node_weights, core): contracts
\* some of the allowed nodes (none when core is 0), inserts shortcuts
\* between allowed nodes, and returns the nodes left uncontracted: the graph
\* after the call and is_core, one record per possible outcome
contractGraph(graph, allowed, core) ==
    {[graph |-> graph \cup added,
      is_core |-> [v \in Nodes |-> v \notin contracted]] :
        contracted \in (IF core = 0 THEN {{}}
                        ELSE SUBSET {v \in Nodes : allowed[v]}),
        added \in (IF core = 0 THEN {{}}
                   ELSE {{}} \cup {{e} : e \in Filter(Shortcuts, allowed)})}

\* lines 112-115 with a predicate that removes an edge as soon as one of
\* its endpoints is in the shared core
NonCoreEdges_EitherEndpoint(all_edges, is_shared_core) ==
    SelectSeq(all_edges,
              LAMBDA edge : ~(is_shared_core[edge.source] \/ is_shared_core[edge.target]))

\* lines 112-115: std::remove_if and resize keep, in order, the edges the
\* predicate is false for
NonCoreEdges(all_edges, is_shared_core) ==
    SelectSeq(all_edges,
              LAMBDA edge : ~(is_shared_core[edge.source] /\ is_shared_core[edge.target]))

NoRun ==
    [pc |-> "none", core_factor |-> 0, use_cached_priority |-> FALSE,
     edge_based_edge_list |-> {}, exclude_filters |-> <<>>,
     files_read |-> {}, files_written |-> {},
     node_levels |-> "empty", filters |-> <<>>,
     contractor_graph |-> {}, is_shared_core |-> AllowAll,
     shared_core_graph |-> {}, next_filter |-> 1,
     contractions |-> <<>>, pass_index |-> <<>>, produced |-> <<>>,
     is_core_node |-> <<>>, hsgr |-> <<>>, core_marker |-> <<>>,
     events |-> <<>>]

----------------------------------------------------------------------------
\* The container on its own: any sequence of Merge and MakeEdgeFilters calls.

\* what the caller has seen of MakeEdgeFilters since the last Merge: the
\* vector returned last (filters), the number of calls (calls), the vector
\* the first of them returned (first), the members as they were before the
\* first call (container), and whether a call died (faulted)
NoRet ==
    [called |-> FALSE, out_of_bounds |-> FALSE, filters |-> <<>>,
     calls |-> 0, first |-> <<>>, container |-> <<>>, faulted |-> FALSE]

Init ==
    /\ index = 0
    /\ flags = <<>>
    /\ edges = <<>>
    /\ m = IdleFrame
    /\ ret = NoRet
    /\ seqs = <<>>
    /\ assertions \in BOOLEAN
    /\ run = NoRun

\* a caller invokes Merge(new_edges): lines 43-60
MergeCall ==
    /\ m.pc = "idle"
    /\ index < MaxPasses
    /\ \E new_edges \in SortedSeqs :
        /\ m' = MergeEnter(index, new_edges, assertions)
        /\ seqs' = Append(seqs, new_edges)
    /\ index' = IF m'.pc = "abort" THEN index ELSE index + 1
    /\ ret' = NoRet
    /\ UNCHANGED <<flags, edges, assertions, run>>

\* lines 62-99, one loop test at a time
MergeLoop ==
    /\ m.pc \in LoopPcs
    /\ \E ge \in EdgesEndChoices(m, edges), gn \in NewEdgesEndChoices(m) :
        m' = MergeStep(Resolve(m, ge, gn), edges, flags, assertions)
    /\ UNCHANGED <<index, flags, edges, ret, seqs, assertions, run>>

\* lines 101-103
MergeReturn ==
    /\ m.pc = "move"
    /\ flags' = m.merged_flags
    /\ edges' = m.merged_edges
    /\ m' = IdleFrame
    /\ UNCHANGED <<index, ret, seqs, assertions, run>>

\* a caller invokes MakeEdgeFilters(): lines 105-118.  An out-of-bounds push
\* either faults or lands outside the returned vector
MakeEdgeFiltersCall ==
    /\ m.pc = "idle"
    /\ ret.calls < MaxCalls
    /\ LET r == MakeEdgeFilters(index, flags)
       IN \E faults \in (IF r.out_of_bounds THEN BOOLEAN ELSE {FALSE}) :
            IF faults
            THEN /\ m' = [IdleFrame EXCEPT !.pc = "segv"]
                 /\ ret' = [ret EXCEPT !.faulted = TRUE]
            ELSE /\ m' = m
                 /\ ret' = [called |-> TRUE,
                            out_of_bounds |-> r.out_of_bounds,
                            filters |-> r.filters,
                            calls |-> ret.calls + 1,
                            first |-> IF ret.calls = 0 THEN r.filters ELSE ret.first,
                            container |-> IF ret.calls = 0
                                          THEN <<index, flags, edges>>
                                          ELSE ret.container,
                            faulted |-> FALSE]
    /\ UNCHANGED <<index, flags, edges, seqs, assertions, run>>

Next == MergeCall \/ MergeLoop \/ MergeReturn \/ MakeEdgeFiltersCall

Spec == Init /\ [][Next]_vars

----------------------------------------------------------------------------
\* Contractor::Run, step by step.

\* Run is entered: config and the files' contents are given
RunInit(core_factors, filter_lists, edge_lists) ==
    /\ index = 0
    /\ flags = <<>>
    /\ edges = <<>>
    /\ m = IdleFrame
    /\ ret = NoRet
    /\ seqs = <<>>
    /\ assertions \in BOOLEAN
    /\ \E cf \in core_factors, cached \in BOOLEAN,
          fl \in filter_lists, el \in edge_lists :
        run = [NoRun EXCEPT !.pc = "start", !.core_factor = cf,
                            !.use_cached_priority = cached,
                            !.exclude_filters = fl,
                            !.edge_based_edge_list = el]

\* lines 44-47
RunCheckConfig ==
    /\ run.pc = "start"
    /\ run' = [run EXCEPT !.pc = IF CoreFactorOutOfRange(run.core_factor)
                                 THEN "throw" ELSE "load"]
    /\ UNCHANGED cvars

\* lines 49-86: node weights, the edge-expanded graph, the cached levels,
\* the node data and the profile properties are read
RunLoad ==
    /\ run.pc = "load"
    /\ run' = [run EXCEPT
           !.pc = "contract",
           !.files_read = {".osrm.enw", ".osrm.ebg", ".osrm.ebg_nodes", ".osrm.properties"}
                          \cup (IF run.use_cached_priority THEN {".osrm.level"} ELSE {}),
           !.node_levels = IF run.use_cached_priority THEN "cached" ELSE "empty",
           !.filters = run.exclude_filters]
    /\ UNCHANGED cvars

\* lines 91-107: the shared contraction
RunContractShared ==
    /\ run.pc = "contract"
    /\ LET always_allowed == AlwaysAllowed(run.filters)
           core == SharedCoreFraction(run.core_factor)
       IN \E out \in contractGraph(run.edge_based_edge_list, always_allowed, core) :
            run' = [run EXCEPT
                !.pc = "merge",
                !.contractor_graph = out.graph,
                !.is_shared_core = out.is_core,
                !.node_levels = IF @ = "empty" THEN "computed" ELSE @,
                !.contractions = Append(@, [graph |-> run.edge_based_edge_list,
                                            allowed |-> always_allowed,
                                            core |-> core]),
                !.events = Append(@, <<"contractGraph", 0>>)]
    /\ UNCHANGED cvars

\* the container and the run after a call Merge(new_edges) that stopped at
\* frame f, r being the run if the call returns (if it does not, the run
\* stops where it is) and pass the number of the contraction the edges come
\* from
MergeDone(f, new_edges, r, pass) ==
    /\ seqs' = Append(seqs, new_edges)
    /\ index' = IF f.pc = "abort" THEN index ELSE index + 1
    /\ flags' = IF f.pc = "move" THEN f.merged_flags ELSE flags
    /\ edges' = IF f.pc = "move" THEN f.merged_edges ELSE edges
    /\ run' = IF f.pc = "move"
              THEN [r EXCEPT !.pass_index = Append(@, index),
                             !.events = Append(@, <<"Merge", pass>>)]
              ELSE [r EXCEPT !.pc = f.pc, !.next_filter = run.next_filter,
                             !.pass_index = Append(@, index),
                             !.events = Append(@, <<"Merge", pass>>)]
    /\ UNCHANGED <<m, ret, assertions>>

\* lines 110-117: the non-core edges are merged
RunMergeShared ==
    /\ run.pc = "merge"
    /\ LET non_core_edges == NonCoreEdges(toEdges(run.contractor_graph), run.is_shared_core)
       IN \E f \in MergeOutcomes(index, edges, flags, non_core_edges, assertions) :
            MergeDone(f, non_core_edges, [run EXCEPT !.pc = "extract"], 0)

\* lines 120-121
RunExtractCore ==
    /\ run.pc = "extract"
    /\ run' = [run EXCEPT
           !.pc = "filters",
           !.shared_core_graph = Filter(run.contractor_graph, run.is_shared_core)]
    /\ UNCHANGED cvars

\* lines 127-129 with Filter handing out the shared graph itself: what
\* contractGraph inserts shows in shared_core_graph
SharedCoreAfterPass_Aliased(shared_core_graph, contracted_graph) ==
    shared_core_graph \cup contracted_graph

\* lines 127-129: shared_core_graph after a pass.  Filter hands out a graph
\* of its own (filtered_core_graph, a local of the loop body) and
\* contractGraph changes that one
SharedCoreAfterPass(shared_core_graph, contracted_graph) == shared_core_graph

\* lines 125-132: one iteration of the loop over the filters
RunFilterPass ==
    /\ run.pc = "filters"
    /\ run.next_filter <= Len(run.filters)
    /\ LET filter == run.filters[run.next_filter]
           filtered_core_graph == Filter(run.shared_core_graph, filter)
           contracted == {out.graph : out \in contractGraph(filtered_core_graph, filter,
                                                             run.core_factor)}
       IN \E graph \in contracted :
            LET new_edges == toEdges(graph)
            IN \E f \in MergeOutcomes(index, edges, flags, new_edges, assertions) :
                 MergeDone(f, new_edges,
                     [run EXCEPT
                         !.next_filter = @ + 1,
                         !.shared_core_graph = SharedCoreAfterPass(@, graph),
                         !.produced = Append(@, new_edges),
                         !.contractions = Append(@, [graph |-> filtered_core_graph,
                                                     allowed |-> filter,
                                                     core |-> run.core_factor]),
                         !.events = Append(@, <<"contractGraph", run.next_filter>>)],
                     run.next_filter)

\* line 125 with a loop that is left after its first iteration
FiltersDone_AfterFirst(r) == r.next_filter > 1 \/ r.filters = <<>>

\* line 125: the range-for over the filters has reached the end
FiltersDone(r) == r.next_filter > Len(r.filters)

\* lines 135-147: the size of edges is logged (135), the checksum is taken
\* over edges (142), and edges is moved into the written graph (146)
RunWriteGraph ==
    /\ run.pc = "filters"
    /\ FiltersDone(run)
    /\ run' = [run EXCEPT !.pc = "write_core",
                          !.hsgr = edges,
                          !.files_written = @ \cup {".osrm.hsgr"},
                          !.events = @ \o <<<<"size", 0>>, <<"checksum", 0>>,
                                            <<"move", 0>>>>]
    /\ edges' = <<>>
    /\ UNCHANGED <<index, flags, m, ret, seqs, assertions>>

\* line 149
RunWriteCore ==
    /\ run.pc = "write_core"
    /\ run' = [run EXCEPT !.pc = "write_levels",
                          !.core_marker = run.is_core_node,
                          !.files_written = @ \cup {".osrm.core"}]
    /\ UNCHANGED cvars

\* line 150 with the levels written whatever the configuration
WritesLevels_Always(use_cached_priority) == TRUE

\* line 150: if (!config.use_cached_priority)
WritesLevels(use_cached_priority) == ~use_cached_priority

\* lines 150-161
RunWriteLevels ==
    /\ run.pc = "write_levels"
    /\ run' = [run EXCEPT
           !.pc = "returned",
           !.files_written = IF WritesLevels(run.use_cached_priority)
                             THEN @ \cup {".osrm.level"} ELSE @]
    /\ UNCHANGED cvars

RunNext ==
    \/ RunCheckConfig
    \/ RunLoad
    \/ RunContractShared
    \/ RunMergeShared
    \/ RunExtractCore
    \/ RunFilterPass
    \/ RunWriteGraph
    \/ RunWriteCore
    \/ RunWriteLevels

\* every filter list of at most MaxRunFilters filters
FilterLists == SeqsUpTo(FilterChoices, MaxRunFilters)

\* the lists of up to MaxFilters filters of which all but the last are the
\* same
WideFilterLists ==
    {[i \in 1..k |-> IF i < k THEN most ELSE last] :
        k \in 0..MaxFilters, most \in FilterChoices, last \in FilterChoices}

\* runs over every configuration, with short filter lists
SpecRun == RunInit(CoreFactors, FilterLists, EdgeLists) /\ [][RunNext]_vars

\* runs with long filter lists, in which nothing is contracted
SpecRunWide == RunInit({0, One + 1}, WideFilterLists, EdgeLists) /\ [][RunNext]_vars

----------------------------------------------------------------------------
\* Properties of the container.

\* no call is in progress and none has faulted or aborted
AtRest == m.pc = "idle"

\* every sequence handed to Merge so far was strictly increasing
InputsStrict == \A i \in 1..Len(seqs) : IsStrictlySorted(seqs[i])

\* C1 as stated: after any sequence of Merge calls on sorted sequences the
\* stored edges are strictly increasing by the canonical tuple.
C1_StrictlyIncreasing == AtRest => IsStrictlySorted(edges)

\* C1 amended: after any sequence of Merge calls, each given a strictly
\* increasing sequence (sorted, no two of its edges equal on the tuple), the
\* stored edges are strictly increasing by the canonical tuple.
C1_StrictInputsStayStrict == (AtRest /\ InputsStrict) => IsStrictlySorted(edges)

\* two Merge calls on strictly increasing, overlapping, non-empty sequences
\* have returned and left at least three edges stored
C1_Witness ==
    /\ AtRest /\ InputsStrict
    /\ Len(seqs) = 2
    /\ Len(seqs[1]) = 2 /\ Len(seqs[2]) = 2
    /\ Range(seqs[1]) \cap Range(seqs[2]) # {}
    /\ Len(edges) = 3

\* C2: flag consistency: for every stored edge and every pass i made so far,
\* bit i of the edge's flag is set iff the edge's tuple appeared in the
\* sequence of pass i.
C2_FlagConsistency ==
    AtRest =>
        \A k \in 1..Len(edges) : \A i \in 0..(Len(seqs) - 1) :
            (BitAt(flags[k], i) = 1) <=> (edges[k] \in Range(seqs[i + 1]))

\* C3: Merge is a sorted merge with respect to content: what it is about to
\* store is the union of what was stored and new_edges.
C3_MergeIsUnion ==
    m.pc = "move" => Range(m.merged_edges) = Range(edges) \cup Range(m.new_edges)

\* C4: Merge never reads the element at the end position of either sequence.
C4_NoEndRead == ~m.read_edges_end /\ ~m.read_new_edges_end

\* C5: MakeEdgeFilters returns one vector per pass, each as long as edges,
\* with filters[p][i] = bit p of flags[i].
C5_FiltersAreFlagBits ==
    ret.called =>
        /\ Len(ret.filters) = index
        /\ \A p \in 1..Len(ret.filters) :
            /\ Len(ret.filters[p]) = Len(edges)
            /\ \A i \in 1..Len(ret.filters[p]) :
                ret.filters[p][i] = (BitAt(flags[i], p - 1) = 1)

----------------------------------------------------------------------------
\* Properties of Contractor::Run.

\* the loop over the filters is over and the edges are not yet moved out
RunMerged == run.pc = "filters" /\ run.next_filter > Len(run.filters)

\* C6: in the final container, bit i of an edge's flag is set iff the edge
\* was produced by the contraction pass run under filter i, i being the
\* position of the filter in the filter list.
C6_BitIsFilterPosition ==
    RunMerged =>
        \A k \in 1..Len(edges) : \A i \in 0..(Len(run.filters) - 1) :
            (BitAt(flags[k], i) = 1) <=> (edges[k] \in Range(run.produced[i + 1]))

\* C7: in a run with at most 8 filters every Merge call is made with a pass
\* index smaller than the flag width, and the passes get distinct bits.
C7_PassIndexFits ==
    Len(run.exclude_filters) <= FlagBits =>
        /\ \A i \in 1..Len(run.pass_index) : run.pass_index[i] < FlagBits
        /\ \A i, j \in 1..Len(run.pass_index) :
            i # j => ShiftFlag(run.pass_index[i]) # ShiftFlag(run.pass_index[j])

\* C8: after every Merge call every stored flag has at least one bit set.
C8_NoZeroFlag == \A k \in 1..Len(flags) : flags[k] # 0

\* C9: with core_factor < 0 or core_factor > 1 Run fails before any work: no
\* file is read or written, nothing is contracted or merged; with
\* core_factor in [0, 1] the configuration error is not raised.
C9_ConfigErrorBeforeWork ==
    /\ (run.pc \notin {"none", "start"}
        /\ (run.core_factor < 0 \/ run.core_factor > One))
       => /\ run.pc = "throw"
          /\ run.files_read = {} /\ run.files_written = {}
          /\ run.contractions = <<>>
          /\ seqs = <<>> /\ index = 0 /\ edges = <<>>
    /\ (0 <= run.core_factor /\ run.core_factor <= One) => run.pc # "throw"

\* Run has failed with the configuration error
C9_Witness == run.pc = "throw" /\ run.core_factor < 0

\* v is allowed by every filter of the run
AllowedByAll(v) == \A i \in 1..Len(run.filters) : run.filters[i][v]

\* C10 as stated: the shared contraction is run with allowed =
\* always_allowed and core fraction BASE_CORE, whatever the valid
\* core_factor; core_factor is used by the per-filter contractions only.
C10_SharedCoreIsBase ==
    Len(run.contractions) >= 1 =>
        /\ \A v \in Nodes : run.contractions[1].allowed[v] <=> AllowedByAll(v)
        /\ run.contractions[1].core = ToFloat(BASE_CORE)

\* C10 amended: the shared contraction is run with allowed = always_allowed
\* and core fraction min(BASE_CORE, core_factor) taken in single precision:
\* BASE_CORE when core_factor is at least BASE_CORE, core_factor itself when
\* it is smaller; every per-filter contraction is run with core_factor.
C10_SharedCoreIsMin ==
    Len(run.contractions) >= 1 =>
        /\ \A v \in Nodes : run.contractions[1].allowed[v] <=> AllowedByAll(v)
        /\ run.contractions[1].core =
               IF ToFloat(run.core_factor) >= ToFloat(BASE_CORE)
               THEN ToFloat(BASE_CORE) ELSE ToFloat(run.core_factor)
        /\ \A i \in 2..Len(run.contractions) :
               run.contractions[i].core = run.core_factor

\* a run with a core_factor below BASE_CORE has made the shared and a
\* per-filter contraction
C10_Witness ==
    /\ Len(run.contractions) >= 2
    /\ 0 < run.core_factor /\ run.core_factor < BASE_CORE

\* the core marker file has been written
CoreWritten == ".osrm.core" \in run.files_written

\* C11: the core marker written by Run has one bit per node; a set bit
\* marks a node left uncontracted, so only nodes of the shared core can be
\* marked, and with core_factor = 0.0 every node is marked.
C11_CoreMarkerIsFinalCore ==
    CoreWritten =>
        /\ Len(run.core_marker) = Cardinality(Nodes)
        /\ \A v \in Nodes : run.core_marker[v + 1] => run.is_shared_core[v]
        /\ run.core_factor = 0 => \A v \in Nodes : run.core_marker[v + 1]

\* C12: MakeEdgeFilters is idempotent and read-only: every call returns;
\* called twice with no Merge in between it returns equal vectors; and the
\* calls leave index, flags and edges as they were before the first call.
C12_FiltersIdempotentReadOnly ==
    /\ ~ret.faulted
    /\ ret.calls >= 1 => ret.container = <<index, flags, edges>>
    /\ ret.calls >= 2 => ret.filters = ret.first

\* C13: always_allowed[v] is the conjunction of filter[v] over all exclusion
\* filters, for every node v: a node is always-allowed iff every filter
\* allows it, and with an empty filter list every node is always-allowed.
C13_AlwaysAllowedIsConjunction ==
    Len(run.contractions) >= 1 =>
        LET always_allowed == run.contractions[1].allowed
        IN /\ DOMAIN always_allowed = Nodes
           /\ \A v \in Nodes :
                always_allowed[v] <=> (\A i \in 1..Len(run.exclude_filters) :
                                          run.exclude_filters[i][v])
           /\ run.exclude_filters = <<>> => \A v \in Nodes : always_allowed[v]

\* the shared contraction was entered with two filters that exclude
\* different nodes, the first of them a node the last one allows
C13_Witness ==
    /\ Len(run.contractions) >= 1
    /\ Len(run.exclude_filters) = 2
    /\ \E v \in Nodes : ~run.exclude_filters[1][v] /\ run.exclude_filters[2][v]
    /\ \E v \in Nodes : run.exclude_filters[1][v] /\ ~run.exclude_filters[2][v]
    /\ \E v \in Nodes : run.contractions[1].allowed[v]

\* the positions at which edge e occurs in the sequence s
PositionsOf(s, e) == {i \in 1..Len(s) : s[i] = e}

\* t holds its elements in the relative order they have in s
SameRelativeOrder(t, s) ==
    \A i, j \in 1..Len(t) :
        i < j => \E a \in PositionsOf(s, t[i]), b \in PositionsOf(s, t[j]) : a < b

\* C14: the sequence passed to the first Merge consists of exactly those
\* output edges of the shared contraction for which not both endpoints are
\* shared-core nodes, each as often as in the output and in the same
\* relative order (so it is sorted if the output is); no edge with both
\* endpoints in the shared core is included.
C14_FirstMergeGetsNonCoreEdges ==
    (Len(seqs) >= 1 /\ run.pc # "none") =>
        LET output == toEdges(run.contractor_graph)
            core == run.is_shared_core
            both_core(e) == core[e.source] /\ core[e.target]
        IN /\ \A e \in Range(output) :
                Cardinality(PositionsOf(seqs[1], e)) =
                    IF both_core(e) THEN 0 ELSE Cardinality(PositionsOf(output, e))
           /\ Range(seqs[1]) \subseteq Range(output)
           /\ \A e \in Range(seqs[1]) : ~both_core(e)
           /\ SameRelativeOrder(seqs[1], output)
           /\ IsSorted(output) => IsSorted(seqs[1])

\* the first Merge of a run was called with two of the three output edges
\* of the shared contraction, the third having both endpoints in the core
C14_Witness ==
    /\ run.pc # "none"
    /\ Len(seqs) >= 1
    /\ Len(seqs[1]) = 2
    /\ Cardinality(run.contractor_graph) = 3
    /\ \E e \in run.contractor_graph :
        run.is_shared_core[e.source] /\ run.is_shared_core[e.target]

\* the container operations of a run with n filters, in program order:
\* per pass the contraction and the Merge of its edges, then the two reads
\* of edges and the move of edges into the written graph
RECURSIVE PassOps(_, _)
PassOps(from, n) ==
    IF from > n THEN <<>>
    ELSE <<<<"contractGraph", from>>, <<"Merge", from>>>> \o PassOps(from + 1, n)

ExpectedOps(n) ==
    PassOps(0, n) \o <<<<"size", 0>>, <<"checksum", 0>>, <<"move", 0>>>>

IsPrefix(s, t) == Len(s) <= Len(t) /\ \A i \in 1..Len(s) : s[i] = t[i]

\* the edges have been moved out of the container
Drained == \E i \in 1..Len(run.events) : run.events[i][1] = "move"

\* C15: the Merge of the shared contraction's non-core edges is the first
\* container operation; then, for each filter in list order, exactly one
\* contraction followed by exactly one Merge of that contraction's edges;
\* the edges are moved out exactly once, after the last Merge, and no Merge
\* or read of the edges happens after that.
C15_ContainerOperationOrder ==
    run.pc # "none" =>
        /\ IsPrefix(run.events, ExpectedOps(Len(run.exclude_filters)))
        /\ Drained => /\ run.events = ExpectedOps(Len(run.exclude_filters))
                      /\ Len(seqs) = Len(run.exclude_filters) + 1
        /\ Len(seqs) >= 1 =>
               seqs[1] = NonCoreEdges(toEdges(run.contractor_graph), run.is_shared_core)
        /\ \A i \in 1..Len(run.produced) :
               i + 1 <= Len(seqs) => seqs[i + 1] = run.produced[i]

\* a run with two filters has moved the edges out and gone on to return
C15_Witness ==
    /\ run.pc = "returned"
    /\ Len(run.exclude_filters) = 2
    /\ Drained
    /\ Len(seqs) = 3

\* the shared-core graph as line 120 extracts it
ExtractedCore == Filter(run.contractor_graph, run.is_shared_core)

\* C16: per-filter passes are independent: contracting the filtered view
\* for one filter leaves the shared-core graph unchanged, so for every
\* filter the graph contracted in its pass is the shared-core graph
\* restricted to the nodes that filter allows, whatever passes came before.
C16_PassesSeeSharedCore ==
    /\ run.pc \in {"filters", "write_core", "write_levels", "returned"}
           => run.shared_core_graph = ExtractedCore
    /\ \A i \in 2..Len(run.contractions) :
           /\ run.shared_core_graph = ExtractedCore
           /\ run.contractions[i].graph =
                  {e \in ExtractedCore : /\ run.exclude_filters[i - 1][e.source]
                                         /\ run.exclude_filters[i - 1][e.target]}

\* two passes were made over a non-empty shared core; the first inserted an
\* edge the shared core does not have, and the second was given edges
C16_Witness ==
    /\ Len(run.contractions) = 3
    /\ Len(run.produced) = 2
    /\ Range(run.produced[1]) \ ExtractedCore # {}
    /\ run.contractions[3].graph # {}
    /\ run.exclude_filters[1] # run.exclude_filters[2]

\* C17: Run reads the cached level file before the first contraction iff
\* use_cached_priority is true, and a run that returns has written the
\* level file iff use_cached_priority is false; a run with
\* use_cached_priority = true never writes the level file.
C17_LevelFileReadXorWritten ==
    /\ Len(run.contractions) >= 1 =>
           (".osrm.level" \in run.files_read <=> run.use_cached_priority)
    /\ ".osrm.level" \in run.files_read =>
           run.use_cached_priority /\ run.node_levels = "cached"
    /\ run.pc = "returned" =>
           (".osrm.level" \in run.files_written <=> ~run.use_cached_priority)
    /\ run.use_cached_priority => ".osrm.level" \notin run.files_written

\* a run with cached priorities has read the level file, contracted and
\* returned
C17_Witness ==
    /\ run.pc = "returned"
    /\ run.use_cached_priority
    /\ ".osrm.level" \in run.files_read
    /\ Len(run.contractions) >= 2

\* the flag f stands with the edge e in what this call builds for a reason
\* the code has: the pair was stored before, or e is new in this pass and f
\* is the flag of the pass, or e was stored and is given again and f is its
\* stored flag with the bit of the pass added
PairHasOrigin(e, f) ==
    \/ \E j \in 1..Len(edges) : edges[j] = e /\ flags[j] = f
    \/ e \in Range(m.new_edges) /\ f = m.flag
    \/ \E j \in 1..Len(edges) :
          edges[j] = e /\ e \in Range(m.new_edges) /\ f = BitOr(flags[j], m.flag)

\* C18: after every Merge call, and after every sequence of Merge calls from
\* the empty container, there is exactly one flag per stored edge, and
\* flags[i] is the flag of edges[i]: what a call stores pairs every edge
\* with the flag that belongs to it.
C18_OneFlagPerEdge ==
    /\ Len(flags) = Len(edges)
    /\ m.flags_iter = m.edges_iter
    /\ m.pc = "move" =>
          /\ Len(m.merged_flags) = Len(m.merged_edges)
          /\ \A k \in 1..Len(m.merged_edges) :
                PairHasOrigin(m.merged_edges[k], m.merged_flags[k])

\* a second Merge is about to store an edge kept from the first pass, an
\* edge given in both passes and an edge new in the second pass
C18_Witness ==
    /\ m.pc = "move"
    /\ Len(seqs) = 2
    /\ m.merged_flags = <<1, 3, 2>>
    /\ Len(m.merged_edges) = 3

\* the cursors of frame st
Cursors(st) == <<st.edges_iter, st.new_edges_iter>>

\* a loop of Merge took its body: cursor adv went one step on from a
\* position before its end, the other cursor stayed (both, when both are
\* named), and the position in the program stayed
TookBody(advanced) ==
    /\ m'.pc = m.pc
    /\ m'.edges_iter = m.edges_iter + (IF "edges_iter" \in advanced THEN 1 ELSE 0)
    /\ m'.new_edges_iter =
           m.new_edges_iter + (IF "new_edges_iter" \in advanced THEN 1 ELSE 0)
    /\ "edges_iter" \in advanced => m.edges_iter < edges_end(edges)
    /\ "new_edges_iter" \in advanced => m.new_edges_iter < new_edges_end(m)

\* a loop of Merge was left for position pc, the cursors as they were
LeftFor(pc) == m'.pc = pc /\ Cursors(m') = Cursors(m)

\* exactly one of existing < new, new < existing, equal
ExactlyOneOrder(existing, new) ==
    Cardinality({k \in 1..3 :
        \/ k = 1 /\ mergeCompare(existing, new)
        \/ k = 2 /\ mergeCompare(new, existing)
        \/ k = 3 /\ mergable(existing, new)}) = 1

\* what one loop test of a running Merge does to the cursors
MergeProgress ==
    /\ m'.edges_iter <= edges_end(edges)
    /\ m'.new_edges_iter <= new_edges_end(m)
    /\ \/ m'.pc \in {"segv", "abort"}
       \/ /\ m.pc = "outer"
          /\ IF m.edges_iter < edges_end(edges) /\ m.new_edges_iter < new_edges_end(m)
             THEN /\ LeftFor("loop1")
                  /\ ExactlyOneOrder(edges[m.edges_iter], m.new_edges[m.new_edges_iter])
             ELSE LeftFor("tail1")
       \/ m.pc = "loop1" /\ (TookBody({"edges_iter"}) \/ LeftFor("loop2"))
       \/ m.pc = "loop2" /\ (TookBody({"new_edges_iter"}) \/ LeftFor("loop3"))
       \/ /\ m.pc = "loop3"
          /\ \/ TookBody({"edges_iter", "new_edges_iter"})
             \/ /\ LeftFor("outer")
                /\ m.outer_pos[1] <= m.edges_iter
                /\ m.outer_pos[2] <= m.new_edges_iter
                /\ m.outer_pos # Cursors(m)
       \/ m.pc = "tail1" /\ (TookBody({"edges_iter"}) \/ LeftFor("tail2"))
       \/ m.pc = "tail2" /\ (TookBody({"new_edges_iter"}) \/ LeftFor("move"))

\* C19: Merge terminates: no cursor goes past its end; every loop test
\* either advances a cursor that is before its end or leaves the loop for
\* the next one, the trailing loops at the latest with their cursor at the
\* end; and an iteration of the outer loop, entered with both cursors
\* before their ends, where exactly one of existing < new, new < existing,
\* equal holds, has advanced at least one cursor when it is over.
C19_MergeTerminates == [][m.pc \in LoopPcs => MergeProgress]_vars

\* a call is about to return after a second iteration of the outer loop
\* and a trailing loop that copied an edge
C19_Witness ==
    /\ m.pc = "move"
    /\ m.outer_pos = <<2, 2>>
    /\ Len(edges) = 2
    /\ Len(m.new_edges) = 2
    /\ Len(m.merged_edges) = 3

====
